---- MODULE Spec2Model ----
\* Branch -> Amplitude webhook translator (src/pages/api/branch-to-amplitude.ts).
\* The source file holds two variants of the handler: the "combined" variant
\* (one call to /2/httpapi, case-insensitive device-id scan) and the "twocall"
\* variant (/identify then /2/httpapi, fixed-precedence device-id lookup).
\*
\* Conventions
\*   - A JavaScript string is a sequence of one-character strings.
\*   - A JavaScript value is a record [t, n, s, e]: t is the typeof-like tag,
\*     n the number (or 0/1 for a boolean), s the characters of a string,
\*     e the ordered <<key, value>> entries of an object.
\*   - Every time quantity (numbers in payloads, numeric strings, Date.now())
\*     is expressed in units of 10^8, so that 1e12 is 10000 and the values fit
\*     the model checker's integers; comparison with 1e12 and multiplication by
\*     1000 commute with that scaling.
EXTENDS Integers, Sequences, FiniteSets, TLC

\* ---------------------------------------------------------------- bounds
MaxFrags == 4        \* fragments concatenated into an event name
MaxKeys == 2         \* entries of a user_data mapping
MaxTicks == 2        \* wall-clock advances observed
MaxDeliveries == 2   \* deliveries of one webhook (first + retries)

\* ---------------------------------------------------------------- strings
LowerLetters == <<"a","d","e","f","g","i","l","n","o","p","r","s","t","v","x">>
UpperLetters == <<"A","D","E","F","G","I","L","N","O","P","R","S","T","V","X">>

ToUpperChar(c) ==
  IF \E i \in 1..Len(LowerLetters) : LowerLetters[i] = c
  THEN UpperLetters[CHOOSE i \in 1..Len(LowerLetters) : LowerLetters[i] = c]
  ELSE c

ToLowerChar(c) ==
  IF \E i \in 1..Len(UpperLetters) : UpperLetters[i] = c
  THEN LowerLetters[CHOOSE i \in 1..Len(UpperLetters) : UpperLetters[i] = c]
  ELSE c

toUpperCase(s) == [i \in 1..Len(s) |-> ToUpperChar(s[i])]
toLowerCase(s) == [i \in 1..Len(s) |-> ToLowerChar(s[i])]

\* String.prototype.includes
includes(s, needle) ==
  \E i \in 0..(Len(s) - Len(needle)) :
     \A j \in 1..Len(needle) : s[i + j] = needle[j]

IsSpace(c) == c = " "

RECURSIVE TrimStart(_)
TrimStart(s) == IF s # <<>> /\ IsSpace(Head(s)) THEN TrimStart(Tail(s)) ELSE s

RECURSIVE TrimEnd(_)
TrimEnd(s) ==
  IF s # <<>> /\ IsSpace(s[Len(s)]) THEN TrimEnd(SubSeq(s, 1, Len(s) - 1)) ELSE s

\* String.prototype.trim
trim(s) == TrimEnd(TrimStart(s))

DigitChars == <<"0","1","2","3","4","5","6","7","8","9">>
IsDigit(c) == \E i \in 1..10 : DigitChars[i] = c
DigitVal(c) == (CHOOSE i \in 1..10 : DigitChars[i] = c) - 1

RECURSIVE DecimalValue(_)
DecimalValue(s) ==
  IF s = <<>> THEN 0
  ELSE 10 * DecimalValue(SubSeq(s, 1, Len(s) - 1)) + DigitVal(s[Len(s)])

\* String(n) for a non-negative integer
RECURSIVE NumberToString(_)
NumberToString(n) ==
  IF n < 10 THEN <<DigitChars[n + 1]>>
  ELSE NumberToString(n \div 10) \o <<DigitChars[(n % 10) + 1]>>

\* ---------------------------------------------------------------- values
Undef == [t |-> "undefined", n |-> 0, s |-> <<>>, e |-> <<>>]
Null == [t |-> "null", n |-> 0, s |-> <<>>, e |-> <<>>]
Num(k) == [t |-> "number", n |-> k, s |-> <<>>, e |-> <<>>]
Str(cs) == [t |-> "string", n |-> 0, s |-> cs, e |-> <<>>]
Bool(b) == [t |-> "boolean", n |-> IF b THEN 1 ELSE 0, s |-> <<>>, e |-> <<>>]
Obj(entries) == [t |-> "object", n |-> 0, s |-> <<>>, e |-> entries]

\* ToBoolean
Truthy(v) ==
  CASE v.t = "undefined" -> FALSE
    [] v.t = "null" -> FALSE
    [] v.t = "number" -> v.n # 0
    [] v.t = "string" -> v.s # <<>>
    [] v.t = "boolean" -> v.n = 1
    [] OTHER -> TRUE

\* a || b
OrElse(a, b) == IF Truthy(a) THEN a ELSE b

\* a ?? b
Coalesce(a, b) == IF a.t \in {"undefined", "null"} THEN b ELSE a

\* property read o[key] (undefined on primitives and on missing keys)
Get(o, key) ==
  IF o.t = "object" /\ \E i \in 1..Len(o.e) : o.e[i][1] = key
  THEN o.e[CHOOSE i \in 1..Len(o.e) : o.e[i][1] = key][2]
  ELSE Undef

\* Object.keys: own keys in insertion order; a string primitive exposes its
\* indices, every other primitive nothing
ObjectKeys(o) ==
  CASE o.t = "object" -> [i \in 1..Len(o.e) |-> o.e[i][1]]
    [] o.t = "string" -> [i \in 1..Len(o.s) |-> NumberToString(i - 1)]
    [] OTHER -> <<>>

\* ---------------------------------------------------------------- keys
K_name == <<"n","a","m","e">>
K_event == <<"e","v","e","n","t">>
K_timestamp == <<"t","i","m","e","s","t","a","m","p">>
K_timestamp_millis == <<"t","i","m","e","s","t","a","m","p","_","m","i","l","l","i","s">>
K_user_data == <<"u","s","e","r","_","d","a","t","a">>
K_latd == <<"l","a","s","t","_","a","t","t","r","i","b","u","t","e","d","_","t","o","u","c","h","_","d","a","t","a">>
K_data == <<"d","a","t","a">>
K_id == <<"i","d">>
K_link_id == <<"l","i","n","k","_","i","d">>
K_channel == <<"c","h","a","n","n","e","l">>
K_os == <<"o","s">>
K_idfa == <<"i","d","f","a">>
K_idfv == <<"i","d","f","v">>
K_adid == <<"a","d","i","d">>
K_advertising_id == <<"a","d","v","e","r","t","i","s","i","n","g","_","i","d">>
K_gaid == <<"g","a","i","d">>

\* the identifier keys the case-insensitive scan recognises
RecognizedKeys == {K_idfa, K_idfv, K_adid, K_advertising_id, K_gaid}

\* { ...a, ...b }: b's values win, a's key order is kept, b's new keys follow
Spread(a, b) ==
  LET ae == IF a.t = "object" THEN a.e ELSE <<>>
      be == IF b.t = "object" THEN b.e ELSE <<>>
      kept == [i \in 1..Len(ae) |->
                 IF \E j \in 1..Len(be) : be[j][1] = ae[i][1]
                 THEN <<ae[i][1], Get(b, ae[i][1])>> ELSE ae[i]]
      fresh(kv) == ~ \E i \in 1..Len(ae) : ae[i][1] = kv[1]
  IN Obj(kept \o SelectSeq(be, fresh))

\* ---------------------------------------------------------------- toMillis
SecondsCutoff == 10000   \* 1e12, in units of 10^8

NaN == [nan |-> TRUE, n |-> 0]
Finite(k) == [nan |-> FALSE, n |-> k]

DateLiteral == <<"2","0","2","3","-","1","1","-","1","4","T","2","2",":","1","3",":","2","0","Z">>
EpochLiteral == <<"1","9","7","0","-","0","1","-","0","1","T","0","0",":","0","0",":","0","0","Z">>

\* Number(v) for the values a JSON body can carry
ToNumber(v) ==
  LET body == trim(v.s)
  IN CASE v.t = "number" -> Finite(v.n)
       [] v.t = "boolean" -> Finite(v.n)
       [] v.t = "null" -> Finite(0)
       [] v.t = "string" ->
            IF \A i \in 1..Len(body) : IsDigit(body[i])
            THEN Finite(DecimalValue(body)) ELSE NaN
       [] OTHER -> NaN

\* new Date(v).getTime() for a value that is not numeric
DateGetTime(v) ==
  CASE v.t = "string" /\ v.s = DateLiteral -> Finite(17000)
    [] v.t = "string" /\ v.s = EpochLiteral -> Finite(0)
    [] OTHER -> NaN

\* mutant: the boundary value 1e12 is taken as milliseconds
RescaleInclusive(k) == IF k >= SecondsCutoff THEN k ELSE k * 1000

Rescale(k) == IF k > SecondsCutoff THEN k ELSE k * 1000

toMillis(ts, now) ==
  LET num == ToNumber(ts)
      d == DateGetTime(ts)
  IN IF ts.t \in {"undefined", "null"} THEN now
     ELSE IF ts.t = "number" THEN Rescale(ts.n)
     ELSE IF ~ num.nan THEN Rescale(num.n)
     ELSE IF ~ d.nan /\ d.n # 0 THEN d.n ELSE now

\* ---------------------------------------------------------------- pickDeviceId
FallbackPrefix == <<"f","a","l","l","b","a","c","k","-">>

NoThrow(v) == [thrown |-> FALSE, message |-> "", v |-> v]
Throw(msg) == [thrown |-> TRUE, message |-> msg, v |-> Undef]

\* combined variant: scan the keys in encounter order, case-insensitively
RECURSIVE ScanKeys(_, _, _)
ScanKeys(u, keys, now) ==
  IF keys = <<>> THEN Str(FallbackPrefix \o NumberToString(now))
  ELSE LET key == Head(keys)
           value == Get(u, key)
       IN IF toLowerCase(key) \in RecognizedKeys
             /\ value.t = "string" /\ trim(value.s) # <<>>
          THEN Str(trim(value.s))
          ELSE ScanKeys(u, Tail(keys), now)

pickDeviceId(p, now) ==
  LET u == OrElse(Get(p, K_user_data), Obj(<<>>))
  IN NoThrow(ScanKeys(u, ObjectKeys(u), now))

\* x && x.trim()
AndTrim(x) ==
  IF ~ Truthy(x) THEN NoThrow(x)
  ELSE IF x.t = "string" THEN NoThrow(Str(trim(x.s)))
  ELSE Throw("trim is not a function")

\* two-call variant: fixed precedence idfa, idfv, adid over exact keys
pickDeviceIdFixed(p) ==
  LET u == OrElse(Get(p, K_user_data), Obj(<<>>))
      a == AndTrim(Get(u, K_idfa))
      b == AndTrim(Get(u, K_idfv))
      c == AndTrim(Get(u, K_adid))
  IN IF a.thrown \/ Truthy(a.v) THEN a
     ELSE IF b.thrown \/ Truthy(b.v) THEN b
     ELSE IF c.thrown \/ Truthy(c.v) THEN c
     ELSE NoThrow(Undef)

\* ---------------------------------------------------------------- normalizeEventType
S_REINSTALL == <<"R","E","I","N","S","T","A","L","L">>
S_INSTALL == <<"I","N","S","T","A","L","L">>
S_OPEN == <<"O","P","E","N">>
L_Reinstall == <<"B","r","a","n","c","h"," ","R","e","i","n","s","t","a","l","l">>
L_Install == <<"B","r","a","n","c","h"," ","A","t","t","r","i","b","u","t","e","d"," ","I","n","s","t","a","l","l">>
L_Open == <<"B","r","a","n","c","h"," ","O","p","e","n">>
L_Event == <<"B","r","a","n","c","h"," ","E","v","e","n","t">>

EventType(ty, label) == [thrown |-> FALSE, message |-> "", type |-> ty, label |-> label]
EventTypeThrow(msg) == [thrown |-> TRUE, message |-> msg, type |-> "", label |-> <<>>]

\* mutant: INSTALL is tested before REINSTALL
normalizeEventTypeInstallFirst(p) ==
  LET r == OrElse(OrElse(Get(p, K_name), Get(p, K_event)), Str(<<>>))
      raw == toUpperCase(r.s)
  IN IF r.t # "string" THEN EventTypeThrow("toUpperCase is not a function")
     ELSE IF includes(raw, S_INSTALL) THEN EventType("install", L_Install)
     ELSE IF includes(raw, S_REINSTALL) THEN EventType("reinstall", L_Reinstall)
     ELSE IF includes(raw, S_OPEN) THEN EventType("open", L_Open)
     ELSE EventType("other", IF raw # <<>> THEN raw ELSE L_Event)

normalizeEventType(p) ==
  LET r == OrElse(OrElse(Get(p, K_name), Get(p, K_event)), Str(<<>>))
      raw == toUpperCase(r.s)
  IN IF r.t # "string" THEN EventTypeThrow("toUpperCase is not a function")
     ELSE IF includes(raw, S_REINSTALL) THEN EventType("reinstall", L_Reinstall)
     ELSE IF includes(raw, S_INSTALL) THEN EventType("install", L_Install)
     ELSE IF includes(raw, S_OPEN) THEN EventType("open", L_Open)
     ELSE EventType("other", IF raw # <<>> THEN raw ELSE L_Event)

\* ---------------------------------------------------------------- buildInsertId
\* JSON.stringify of an object literal: members whose value is undefined are
\* left out, the others are written in order
JSONstringify(entries) == SelectSeq(entries, LAMBDA kv : kv[2].t # "undefined")

\* SHA-256 hex digest, modelled as an injective function of its input
Sha256Hex(seed) == [sha256 |-> seed]

\* p.last_attributed_touch_data?.link_id
LinkOf(p) ==
  LET l == Get(p, K_latd)
  IN IF l.t \in {"undefined", "null"} THEN Undef ELSE Get(l, K_link_id)

buildInsertId(p, when, label) ==
  Sha256Hex(JSONstringify(<<
     <<"id", Get(p, K_id)>>, <<"name", Get(p, K_name)>>,
     <<"event", Get(p, K_event)>>, <<"when", Num(when)>>,
     <<"label", Str(label)>>, <<"link", LinkOf(p)>> >>))

\* ---------------------------------------------------------------- handler state
VARIABLES
  variant,       \* which of the two handlers is deployed
  BRANCH_TOKEN,  \* process.env.BRANCH_TOKEN ("" when unset)
  clock,         \* Date.now()
  pc,            \* position of the running invocation
  req,           \* the request being handled: method, query token, body
  loc,           \* the handler's locals that live across an await
  outbound,      \* requests issued by this invocation, in order
  results,       \* per outbound request: pending, rejected, or the answer received
  records,       \* outbound records built by this invocation, in order
  responses,     \* responses written to res by this invocation
  deliveries,    \* deliveries of the webhook so far
  insertIds,     \* insert_id of every attribution event sent for the webhook
  arg,           \* input of the pure function under check
  out            \* its result

vars == <<variant, BRANCH_TOKEN, clock, pc, req, loc, outbound, results,
          records, responses, deliveries, insertIds, arg, out>>

ClockStart == 17001   \* about 1.7e12 ms

NoDigest == [sha256 |-> <<>>]

NoLoc == [p |-> Undef, deviceId |-> Undef, latd |-> Undef, when |-> 0,
          type |-> "", label |-> <<>>, insertId |-> NoDigest]

NoReq == [method |-> "", token |-> "", body |-> Undef]

\* res.status(..).send(..) / res.status(..).json(..)
Response(status, what, dstatus, dbody, message) ==
  [status |-> status, what |-> what, downstream_status |-> dstatus,
   downstream_body |-> dbody, message |-> message]

MethodNotAllowed == Response(405, "Method Not Allowed", 0, "", "")
Unauthorized == Response(401, "Unauthorized", 0, "", "")
Skipped == Response(202, "skipped:no_device_id", 0, "", "")
Delivered == Response(200, "ok", 0, "", "")
DownstreamFailed(error, status, text) == Response(500, error, status, text, "")
ServerError(message) == Response(500, "server_error", 0, "", message)

\* mutant: only a 5xx answer counts as a failure
OkLoose(status) == status < 500

\* Response.ok
Ok(status) == status \in 200..299

\* what became of a fetch: still pending, rejected, or answered with a status
\* and a body (read is set once res.text() has returned it)
Pending == [state |-> "pending", status |-> 0, body |-> "", read |-> FALSE]
Failed == [state |-> "rejected", status |-> 0, body |-> "", read |-> FALSE]
Answer(status, text) == [state |-> "answered", status |-> status, body |-> text, read |-> FALSE]

\* ---------------------------------------------------------------- records
OutRecord(kind, deviceId, eventType, time, insertId, installType, installTs,
          channel, link, platform, osName) ==
  [kind |-> kind, device_id |-> deviceId, event_type |-> eventType,
   time |-> time, insert_id |-> insertId, install_type |-> installType,
   acq_install_ts |-> installTs, channel |-> channel, link_id |-> link,
   platform |-> platform, os_name |-> osName]

S_identify == <<"$","i","d","e","n","t","i","f","y">>
S_android == <<"a","n","d","r","o","i","d">>

\* the identification object (first-touch $setOnce, last-touch $set)
Identification(l) ==
  OutRecord("identification", l.deviceId, <<>>, l.when, NoDigest, "",
            IF l.type = "install" THEN Num(l.when) ELSE Undef,
            Coalesce(Get(l.latd, K_channel), Null), Undef, "", Undef)

\* the $identify event of the combined variant
IdentifyEvent(l) ==
  [Identification(l) EXCEPT !.kind = "$identify", !.event_type = S_identify]

BuiltEvent(rec) == [thrown |-> FALSE, message |-> "", rec |-> rec]
EventThrow(msg) == [thrown |-> TRUE, message |-> msg, rec |-> Undef]

AttributionEvent(l, platform, osName) ==
  OutRecord("event", l.deviceId, l.label, l.when, l.insertId, l.type, Undef,
            Coalesce(Get(l.latd, K_channel), Null),
            Coalesce(Get(l.latd, K_link_id), Null), platform, osName)

PlatformOf(os) ==
  IF includes(toLowerCase(os), S_android) THEN "Android" ELSE "iOS"

\* combined variant: metadata read through `"os" in u && typeof u.os === "string"`
BranchEvent(l) ==
  LET u == Coalesce(Get(l.p, K_user_data), Obj(<<>>))
      os == Get(u, K_os)
  IN IF u.t # "object"
     THEN EventThrow("Cannot use 'in' operator")
     ELSE BuiltEvent(AttributionEvent(l,
            PlatformOf(IF os.t = "string" THEN os.s ELSE <<>>),
            IF os.t = "string" THEN os ELSE Undef))

\* two-call variant: metadata read through `u.os || ""`
EventBody(l) ==
  LET u == OrElse(Get(l.p, K_user_data), Obj(<<>>))
      os == OrElse(Get(u, K_os), Str(<<>>))
  IN IF os.t # "string"
     THEN EventThrow("toLowerCase is not a function")
     ELSE BuiltEvent(AttributionEvent(l, PlatformOf(os.s),
                                      OrElse(Get(u, K_os), Undef)))

Request(url, recs) == [url |-> url, records |-> recs]

\* ---------------------------------------------------------------- handler
\* lines 95-109 / 277-291: merge the `data` wrapper, then extract the fields
Prepared(l) == [thrown |-> FALSE, message |-> "", skip |-> FALSE, loc |-> l]
PrepareSkip == [thrown |-> FALSE, message |-> "", skip |-> TRUE, loc |-> NoLoc]
PrepareThrow(msg) == [thrown |-> TRUE, message |-> msg, skip |-> FALSE, loc |-> NoLoc]

MergeData(body) ==
  LET payload == OrElse(body, Obj(<<>>))
      data == Get(payload, K_data)
  IN IF data.t \in {"object", "null"} THEN Spread(payload, data) ELSE payload

DeviceIdOf(v, p, now) ==
  IF v = "combined" THEN pickDeviceId(p, now) ELSE pickDeviceIdFixed(p)

\* lines 100-109 / 282-291 over the merged payload p
Extract(v, p, now) ==
  LET d == DeviceIdOf(v, p, now)
      ne == normalizeEventType(p)
  IN IF d.thrown THEN PrepareThrow(d.message)
     ELSE IF ~ Truthy(d.v) THEN PrepareSkip
     ELSE IF ne.thrown THEN PrepareThrow(ne.message)
     ELSE Prepared([p |-> p, deviceId |-> d.v,
                    latd |-> OrElse(Get(p, K_latd), Obj(<<>>)),
                    when |-> toMillis(OrElse(Get(p, K_timestamp_millis),
                                             Get(p, K_timestamp)), now),
                    type |-> ne.type, label |-> ne.label,
                    insertId |-> buildInsertId(p,
                       toMillis(OrElse(Get(p, K_timestamp_millis),
                                       Get(p, K_timestamp)), now), ne.label)])

Prepare(v, body, now) == Extract(v, MergeData(body), now)

\* what one synchronous stretch of the handler leaves behind
Step(nextPc, l, resps, recs, reqs) ==
  [pc |-> nextPc, loc |-> l, responses |-> resps, records |-> recs, outbound |-> reqs]

Respond(r, recs) == Step("done", NoLoc, <<r>>, recs, <<>>)

\* mutant: an unset BRANCH_TOKEN is not rejected
RejectedTokenOnly(method, token, configured) ==
  IF method # "POST" THEN <<MethodNotAllowed>>
  ELSE IF token # configured THEN <<Unauthorized>>
  ELSE <<>>

\* the method and token gate
Rejected(method, token, configured) ==
  IF method # "POST" THEN <<MethodNotAllowed>>
  ELSE IF configured = "" \/ token # configured THEN <<Unauthorized>>
  ELSE <<>>

\* combined variant after the extraction: build both events, one call to /2/httpapi
CombinedSend(l, ev) ==
  IF ev.thrown
  THEN Respond(ServerError(ev.message), <<Identification(l), IdentifyEvent(l)>>)
  ELSE Step("await_event", l, <<>>,
            <<Identification(l), IdentifyEvent(l), ev.rec>>,
            <<Request("/2/httpapi", <<IdentifyEvent(l), ev.rec>>)>>)

CombinedCore(prep) ==
  IF prep.thrown THEN Respond(ServerError(prep.message), <<>>)
  ELSE IF prep.skip THEN Respond(Skipped, <<>>)
  ELSE CombinedSend(prep.loc, BranchEvent(prep.loc))

\* two-call variant after the extraction: build the identification, call /identify
TwoCallCore(prep) ==
  IF prep.thrown THEN Respond(ServerError(prep.message), <<>>)
  ELSE IF prep.skip THEN Respond(Skipped, <<>>)
  ELSE Step("await_identify", prep.loc, <<>>, <<Identification(prep.loc)>>,
            <<Request("/identify", <<Identification(prep.loc)>>)>>)

\* from entry to the first await or the first response
Entry(v, configured, r, now) ==
  IF Rejected(r.method, r.token, configured) # <<>>
  THEN Respond(Rejected(r.method, r.token, configured)[1], <<>>)
  ELSE IF v = "combined" THEN CombinedCore(Prepare(v, r.body, now))
  ELSE TwoCallCore(Prepare(v, r.body, now))

\* insert_ids carried by the attribution events of a request
EventIdsOf(reqs) ==
  UNION { { reqs[i].records[j].insert_id :
              j \in { k \in 1..Len(reqs[i].records) :
                        reqs[i].records[k].kind = "event" } } :
          i \in 1..Len(reqs) }

\* ---------------------------------------------------------------- inputs
S_A == <<"A">>
S_B == <<"B">>
S_V == <<"V">>
S_G == <<"G">>
S_padded == <<" ","A"," ">>
S_blank == <<" "," ">>
K_IDFA == toUpperCase(K_idfa)
K_Gaid == <<"G">> \o Tail(K_gaid)
S_Android == <<"A">> \o Tail(S_android)
S_install == toLowerCase(S_INSTALL)
S_reinstall_open == toLowerCase(S_REINSTALL) \o <<"_">> \o toLowerCase(S_OPEN)
S_garbage == <<"x","x">>

\* an object literal: members given as undefined are absent
Object(entries) == Obj(SelectSeq(entries, LAMBDA kv : kv[2].t # "undefined"))

UserDataOptions ==
  { Undef, Null, Str(S_garbage), Obj(<<>>),
    Obj(<< <<K_idfa, Str(S_A)>> >>),
    Obj(<< <<K_adid, Str(S_B)>>, <<K_idfa, Str(S_padded)>> >>),
    Obj(<< <<K_IDFA, Str(S_A)>> >>),
    Obj(<< <<K_idfa, Str(S_blank)>> >>),
    Obj(<< <<K_idfa, Null>>, <<K_idfv, Str(<<>>)>> >>),
    Obj(<< <<K_idfa, Num(5)>>, <<K_idfv, Str(S_V)>> >>),
    Obj(<< <<K_idfa, Num(5)>> >>),
    Obj(<< <<K_gaid, Str(S_G)>>, <<K_os, Str(S_Android)>> >>),
    Obj(<< <<K_idfv, Str(S_V)>>, <<K_os, Num(5)>> >>),
    Obj(<< <<K_os, Str(S_Android)>> >>) }

DataOptions ==
  { Undef, Null, Str(S_garbage),
    Obj(<< <<K_user_data, Obj(<< <<K_idfv, Str(S_V)>> >>)>> >>),
    Obj(<< <<K_name, Str(S_install)>> >>) }

NameOptions == { Undef, Str(S_INSTALL), Str(S_reinstall_open), Str(<<>>), Num(7), Null }
EventOptions == { Undef, Str(S_OPEN), Bool(TRUE) }
MillisOptions == { Undef, Num(17000), Num(0) }
TimestampOptions == { Undef, Num(17), Str(<<"1","7">>), Str(DateLiteral), Str(S_garbage), Bool(TRUE) }
LatdOptions ==
  { Undef, Null, Str(S_garbage),
    Obj(<< <<K_channel, Str(S_A)>>, <<K_link_id, Str(S_B)>> >>) }
IdOptions == { Undef, Str(S_A) }

Payload(name, event, millis, ts, ud, latd, data, id) ==
  Object(<< <<K_name, name>>, <<K_event, event>>, <<K_timestamp_millis, millis>>,
            <<K_timestamp, ts>>, <<K_user_data, ud>>, <<K_latd, latd>>,
            <<K_data, data>>, <<K_id, id>> >>)

GoodUser == Obj(<< <<K_idfa, Str(S_A)>> >>)

\* request bodies: every identity shape, every timestamp shape and every
\* event-name shape, each varied against an otherwise plain payload
Bodies ==
  { Undef }
  \cup { Payload(Str(S_INSTALL), Undef, Num(17000), Undef, ud, Undef, d, Undef) :
           ud \in UserDataOptions, d \in DataOptions }
  \cup { Payload(Str(S_INSTALL), Undef, m, ts, GoodUser, Undef, Undef, id) :
           m \in MillisOptions, ts \in TimestampOptions, id \in IdOptions }
  \cup { Payload(n, ev, Num(17000), Undef, GoodUser, l, Undef, Undef) :
           n \in NameOptions, ev \in EventOptions, l \in LatdOptions }

Methods == { "POST", "GET" }
Tokens == { "", "secret", "wrong" }
Statuses == { 204, 400, 503 }
Texts == { "", "invalid" }

\* ---------------------------------------------------------------- actions
Idle ==
  /\ pc = "idle" /\ req = NoReq /\ loc = NoLoc
  /\ outbound = <<>> /\ results = <<>> /\ records = <<>> /\ responses = <<>>
  /\ deliveries = 0 /\ insertIds = {}

Init ==
  /\ variant \in {"combined", "twocall"}
  /\ BRANCH_TOKEN \in {"", "secret"}
  /\ clock = ClockStart
  /\ Idle
  /\ arg = Undef /\ out = Undef

\* one invocation of handler(req, res), up to its first await or its response
Run(r) ==
  \E st \in { Entry(variant, BRANCH_TOKEN, r, clock) } :
     /\ req' = r
     /\ pc' = st.pc
     /\ loc' = st.loc
     /\ responses' = st.responses
     /\ records' = st.records
     /\ outbound' = st.outbound
     /\ results' = [i \in 1..Len(st.outbound) |-> Pending]
     /\ insertIds' = insertIds \cup EventIdsOf(st.outbound)
     /\ deliveries' = deliveries + 1
     /\ UNCHANGED <<variant, BRANCH_TOKEN, clock, arg, out>>

\* the webhook is delivered for the first time
Receive ==
  /\ pc = "idle"
  /\ \E m \in Methods, t \in Tokens, b \in Bodies :
        Run([method |-> m, token |-> t, body |-> b])

\* the sender repeats the delivery after a 500
Redeliver ==
  /\ pc = "done"
  /\ deliveries < MaxDeliveries
  /\ responses[Len(responses)].status = 500
  /\ Run(req)

Finish(r) ==
  /\ pc' = "done"
  /\ loc' = NoLoc
  /\ responses' = Append(responses, r)

Complete(i, answer) == results' = [results EXCEPT ![i] = answer]

\* /identify answers: on ok build the event and call /2/httpapi, else read the body
IdentifyResolved ==
  /\ pc = "await_identify"
  /\ \E status \in Statuses, text \in Texts, ev \in { EventBody(loc) } :
       IF ~ Ok(status)
       THEN /\ Complete(Len(outbound), Answer(status, text))
            /\ pc' = "await_identify_text"
            /\ UNCHANGED <<loc, responses, records, outbound, insertIds>>
       ELSE IF ev.thrown
       THEN /\ Complete(Len(outbound), Answer(status, text))
            /\ Finish(ServerError(ev.message))
            /\ UNCHANGED <<records, outbound, insertIds>>
       ELSE /\ pc' = "await_event"
            /\ records' = Append(records, ev.rec)
            /\ outbound' = Append(outbound, Request("/2/httpapi", <<ev.rec>>))
            /\ results' = Append([results EXCEPT ![Len(outbound)] = Answer(status, text)],
                                 Pending)
            /\ insertIds' = insertIds \cup {ev.rec.insert_id}
            /\ UNCHANGED <<loc, responses>>
  /\ UNCHANGED <<variant, BRANCH_TOKEN, clock, req, deliveries, arg, out>>

\* /2/httpapi answers
EventResolved ==
  /\ pc = "await_event"
  /\ \E status \in Statuses, text \in Texts :
       /\ Complete(Len(outbound), Answer(status, text))
       /\ IF Ok(status)
          THEN Finish(Delivered)
          ELSE pc' = "await_event_text" /\ UNCHANGED <<loc, responses>>
  /\ UNCHANGED <<variant, BRANCH_TOKEN, clock, req, outbound, records,
                 deliveries, insertIds, arg, out>>

\* mutant: the catch block swallows the rejection and writes no response
FetchRejectedSilent ==
  /\ pc \in {"await_identify", "await_event"}
  /\ Complete(Len(outbound), Failed)
  /\ pc' = "done"
  /\ loc' = NoLoc
  /\ UNCHANGED <<variant, BRANCH_TOKEN, clock, req, outbound, records, responses,
                 deliveries, insertIds, arg, out>>

\* fetch rejects (network failure): the catch block answers
FetchRejected ==
  /\ pc \in {"await_identify", "await_event"}
  /\ Complete(Len(outbound), Failed)
  /\ Finish(ServerError("fetch failed"))
  /\ UNCHANGED <<variant, BRANCH_TOKEN, clock, req, outbound, records,
                 deliveries, insertIds, arg, out>>

FailureName(at) == IF at = "await_identify_text" THEN "identify_failed" ELSE "event_failed"

\* mutant: the downstream status is left out of the failure body
FailureBodyNoStatus(at, answer) == DownstreamFailed(FailureName(at), 0, answer.body)

\* the body of a non-ok response has been read: answer 500 with status and body
FailureBody(at, answer) == DownstreamFailed(FailureName(at), answer.status, answer.body)

TextResolved ==
  /\ pc \in {"await_identify_text", "await_event_text"}
  /\ Complete(Len(results), [results[Len(results)] EXCEPT !.read = TRUE])
  /\ Finish(FailureBody(pc, results[Len(results)]))
  /\ UNCHANGED <<variant, BRANCH_TOKEN, clock, req, outbound, records,
                 deliveries, insertIds, arg, out>>

\* reading the body rejects: the catch block answers
TextRejected ==
  /\ pc \in {"await_identify_text", "await_event_text"}
  /\ Finish(ServerError("body read failed"))
  /\ UNCHANGED <<variant, BRANCH_TOKEN, clock, req, outbound, results, records,
                 deliveries, insertIds, arg, out>>

\* wall-clock time passes
Tick ==
  /\ clock < ClockStart + MaxTicks
  /\ clock' = clock + 1
  /\ UNCHANGED <<variant, BRANCH_TOKEN, pc, req, loc, outbound, results, records,
                 responses, deliveries, insertIds, arg, out>>

Next ==
  \/ Receive
  \/ Redeliver
  \/ IdentifyResolved
  \/ EventResolved
  \/ FetchRejected
  \/ TextResolved
  \/ TextRejected
  \/ Tick

Spec == Init /\ [][Next]_vars

\* ---------------------------------------------------------------- pure-function harnesses
UNCHANGED_handler ==
  UNCHANGED <<variant, BRANCH_TOKEN, clock, req, loc, outbound, results, records,
              responses, deliveries, insertIds, arg>>

IdKeys == { K_idfa, K_IDFA, K_idfv, K_adid, K_Gaid, K_os }
IdValues == { Str(S_padded), Str(S_B), Str(S_blank), Num(5) }

\* user_data mappings of at most MaxKeys members with distinct keys
UserDatas ==
  UNION { { Obj([i \in 1..n |-> <<ks[i], vs[i]>>]) :
              ks \in { f \in [1..n -> IdKeys] : \A i, j \in 1..n : i # j => f[i] # f[j] },
              vs \in [1..n -> IdValues] } :
          n \in 0..MaxKeys }

InitPick ==
  /\ variant \in {"combined", "twocall"}
  /\ BRANCH_TOKEN = "secret" /\ clock = ClockStart /\ Idle
  /\ arg \in { Object(<< <<K_user_data, u>> >>) : u \in UserDatas \cup {Undef, Null} }
  /\ out = NoThrow(Undef)

PickDeviceId ==
  /\ pc = "idle"
  /\ pc' = "returned"
  /\ out' = DeviceIdOf(variant, arg, clock)
  /\ UNCHANGED_handler

SpecPick == InitPick /\ [][PickDeviceId]_vars

Fragments ==
  { <<"r","e">>, <<"R","e">>, S_install, S_INSTALL, <<"O","p","e","n">>, <<"_">> }

RECURSIVE Concat(_)
Concat(parts) == IF parts = <<>> THEN <<>> ELSE Head(parts) \o Concat(Tail(parts))

EventNames ==
  UNION { { Concat(f) : f \in [1..n -> Fragments] } : n \in 0..MaxFrags }

InitEvt ==
  /\ variant = "combined"
  /\ BRANCH_TOKEN = "secret" /\ clock = ClockStart /\ Idle
  /\ arg \in { Object(<< <<K_name, n>>, <<K_event, e>> >>) :
                 n \in { Str(x) : x \in EventNames } \cup {Undef},
                 e \in { Undef, Str(S_OPEN), Str(S_install), Str(<<"x">>) } }
  /\ out = EventType("", <<>>)

NormalizeEventType ==
  /\ pc = "idle"
  /\ pc' = "returned"
  /\ out' = normalizeEventType(arg)
  /\ UNCHANGED_handler

SpecEvt == InitEvt /\ [][NormalizeEventType]_vars

MaxSmall == 40   \* small second counts tried

MillisInputs ==
  (0..MaxSmall) \cup { SecondsCutoff - 1, SecondsCutoff, SecondsCutoff + 1,
                       17000, 17001, 5 * SecondsCutoff }

InitMillis ==
  /\ variant = "combined"
  /\ BRANCH_TOKEN = "secret" /\ clock \in ClockStart..(ClockStart + MaxTicks) /\ Idle
  /\ arg \in { Num(n) : n \in MillisInputs \cup {-3} }
           \cup { Str(NumberToString(n)) : n \in MillisInputs }
           \cup { Str(<<" ">> \o NumberToString(n)) : n \in {17, 17000} }
           \cup { Undef, Null, Str(S_garbage), Str(DateLiteral) }
  /\ out = Num(0)

ToMillis ==
  /\ pc = "idle"
  /\ pc' = "returned"
  /\ out' = Num(toMillis(arg, clock))
  /\ UNCHANGED_handler

SpecMillis == InitMillis /\ [][ToMillis]_vars

\* ---------------------------------------------------------------- properties
Authorized == req.method = "POST" /\ BRANCH_TOKEN # "" /\ req.token = BRANCH_TOKEN

\* a recognised identifier key (any letter case) holding a non-blank string
Populated(kv) ==
  /\ toLowerCase(kv[1]) \in RecognizedKeys
  /\ kv[2].t = "string"
  /\ trim(kv[2].s) # <<>>

HasIdentity(p) ==
  /\ Get(p, K_user_data).t = "object"
  /\ \E i \in 1..Len(Get(p, K_user_data).e) : Populated(Get(p, K_user_data).e[i])

FirstPopulated(u) ==
  u.e[CHOOSE i \in 1..Len(u.e) :
        Populated(u.e[i]) /\ \A j \in 1..(i - 1) : ~ Populated(u.e[j])][2]

NonOk(answer) == answer.state = "answered" /\ answer.status \notin 200..299

\* C1: an authorized POST whose merged payload has no populated identity field
\* ends skipped (202, no_device_id), with no record built and no request issued.
C1_SkippedWithoutDeviceId ==
  (deliveries > 0 /\ Authorized /\ ~ HasIdentity(MergeData(req.body)))
     => /\ pc = "done"
        /\ responses = <<Skipped>>
        /\ records = <<>>
        /\ outbound = <<>>

\* C2: at most one outbound request is in flight; in the two-call handler the
\* request to /2/httpapi is issued only after /identify answered ok, and never
\* once /identify answered non-ok or failed.
C2_DeliveriesOrdered ==
  /\ Len(results) = Len(outbound)
  /\ Cardinality({ i \in 1..Len(results) : results[i].state = "pending" }) <= 1
  /\ variant = "combined" => Len(outbound) <= 1
  /\ variant = "twocall" =>
       \A i \in 1..Len(outbound) :
          outbound[i].url = "/2/httpapi"
             => /\ i = 2
                /\ outbound[1].url = "/identify"
                /\ results[1].state = "answered"
                /\ results[1].status \in 200..299
  /\ (variant = "twocall" /\ Len(results) >= 1
        /\ (results[1].state = "rejected" \/ NonOk(results[1])))
       => Len(outbound) = 1

C2_Witness ==
  /\ variant = "twocall"
  /\ Len(outbound) = 2
  /\ outbound[2].url = "/2/httpapi"
  /\ results[1].status = 204
  /\ results[2].state = "pending"

\* C3: the same payload delivered again yields the same insert_id, whatever
\* the wall-clock time of each delivery.
C3_RetryKeepsInsertId == Cardinality(insertIds) <= 1

\* C4: once an outbound delivery is answered with a non-2xx status the
\* invocation never answers 200 and ends with 500; when the answer's body has
\* been read, the 500 carries the downstream status and body.
C4_FailureReported ==
  \A i \in 1..Len(results) :
     NonOk(results[i]) =>
        /\ \A k \in 1..Len(responses) : responses[k].status # 200
        /\ pc = "done" => (Len(responses) = 1 /\ responses[1].status = 500)
        /\ results[i].read =>
             /\ pc = "done"
             /\ responses[1].what \in {"identify_failed", "event_failed"}
             /\ responses[1].downstream_status = results[i].status
             /\ responses[1].downstream_body = results[i].body

C4_Witness ==
  /\ pc = "done"
  /\ Len(results) = 2
  /\ results[2].status = 503 /\ results[2].body = "invalid" /\ results[2].read
  /\ responses = <<DownstreamFailed("event_failed", 503, "invalid")>>

Outcomes ==
  { "Method Not Allowed", "Unauthorized", "skipped:no_device_id", "ok",
    "identify_failed", "event_failed", "server_error" }

\* C5: every invocation that has ended produced exactly one response, and an
\* invocation still running has produced none; the response is one of the
\* handler's outcomes.
C5_ExactlyOneOutcome ==
  /\ Len(responses) <= 1
  /\ (pc = "done") <=> (Len(responses) = 1)
  /\ pc = "idle" => deliveries = 0
  /\ \A k \in 1..Len(responses) : responses[k].what \in Outcomes

C5_Witness ==
  /\ pc = "done"
  /\ results # <<>> /\ results[Len(results)].state = "rejected"
  /\ responses = <<ServerError("fetch failed")>>

TransportFaults == { "fetch failed", "body read failed" }

\* the deployed variant's own extraction yields a device id for the request
Resolved ==
  /\ ~ DeviceIdOf(variant, MergeData(req.body), clock).thrown
  /\ Truthy(DeviceIdOf(variant, MergeData(req.body), clock).v)

\* C6: with a resolvable device id, whatever the other fields hold, the
\* handler builds its records and never ends in server_error because of the
\* payload.
C6_MalformedNeverFails ==
  (deliveries > 0 /\ Authorized /\ Resolved)
     => /\ records # <<>>
        /\ \A k \in 1..Len(responses) :
              responses[k].what = "server_error"
                 => responses[k].message \in TransportFaults

\* C7: when the identity mapping holds a populated recognised key, extraction
\* returns the trimmed value of the first such key in encounter order.
C7_FirstEncountered ==
  (pc = "returned" /\ HasIdentity(arg))
     => /\ ~ out.thrown
        /\ out.v = Str(trim(FirstPopulated(Get(arg, K_user_data)).s))

\* the string normalisation starts from: name, else event, else ""
RawName(p) ==
  IF Get(p, K_name).t = "string" /\ Get(p, K_name).s # <<>> THEN Get(p, K_name).s
  ELSE IF Get(p, K_event).t = "string" THEN Get(p, K_event).s
  ELSE <<>>

ContainsAnyCase(s, word) == includes(toLowerCase(s), toLowerCase(word))

\* C8: normalisation tests REINSTALL, then INSTALL, then OPEN on the name
\* (else the event field), in any letter case; otherwise the kind is other and
\* the label the uppercased raw string, or "Branch Event" when it is empty.
C8_EventTypePriority ==
  pc = "returned" =>
     /\ ~ out.thrown
     /\ IF ContainsAnyCase(RawName(arg), S_REINSTALL)
        THEN out.type = "reinstall" /\ out.label = L_Reinstall
        ELSE IF ContainsAnyCase(RawName(arg), S_INSTALL)
        THEN out.type = "install" /\ out.label = L_Install
        ELSE IF ContainsAnyCase(RawName(arg), S_OPEN)
        THEN out.type = "open" /\ out.label = L_Open
        ELSE /\ out.type = "other"
             /\ out.label = IF RawName(arg) = <<>> THEN L_Event
                            ELSE toUpperCase(RawName(arg))

C8_Witness ==
  /\ pc = "returned"
  /\ Get(arg, K_name).s = toLowerCase(S_REINSTALL) \o <<"_", "O", "p", "e", "n">>
  /\ includes(toUpperCase(Get(arg, K_name).s), S_OPEN)
  /\ includes(toUpperCase(Get(arg, K_name).s), S_INSTALL)
  /\ out.type = "reinstall"
  /\ out.label = L_Reinstall

NumericString(v) ==
  v.t = "string" /\ \A i \in 1..Len(trim(v.s)) : IsDigit(trim(v.s)[i])

Expected(n) == IF n <= SecondsCutoff THEN n * 1000 ELSE n

\* C9: a number n, or a string that parses as n, coerces to n*1000 when
\* n <= 1e12 and to n when n > 1e12; so a seconds value and its millisecond
\* form coerce to the same value.
C9_TimestampRescaled ==
  pc = "returned" =>
     /\ arg.t = "number" => out.n = Expected(arg.n)
     /\ NumericString(arg) => out.n = Expected(DecimalValue(trim(arg.s)))
     /\ (arg.t = "number" /\ arg.n <= SecondsCutoff /\ arg.n * 1000 > SecondsCutoff)
          => toMillis(Num(arg.n * 1000), clock) = out.n

C9_Witness ==
  /\ pc = "returned"
  /\ arg = Num(17)
  /\ out = Num(17000)
  /\ toMillis(Num(17000), clock) = 17000

\* C10: nothing is built or sent unless the method is POST and the token
\* equals a configured BRANCH_TOKEN; a non-POST request ends 405 whatever its
\* token, and a POST with a wrong token or an unset BRANCH_TOKEN ends 401.
C10_GatePrecedesCore ==
  /\ (outbound # <<>> \/ records # <<>>) => Authorized
  /\ (pc = "done" /\ req.method # "POST") => responses = <<MethodNotAllowed>>
  /\ (pc = "done" /\ req.method = "POST" /\ ~ Authorized) => responses = <<Unauthorized>>

C10_Witness ==
  /\ pc = "done"
  /\ BRANCH_TOKEN = "" /\ req.method = "POST" /\ req.token = ""
  /\ responses = <<Unauthorized>>
  /\ outbound = <<>> /\ records = <<>>

====
